---- MODULE Spec2Model ----
(***************************************************************************)
(* Model of src/event_extraction.py: the module body (credential check,    *)
(* client construction), the three stages extract_event_info,              *)
(* parse_event_details and generate_confirmation, and the orchestrator     *)
(* process_calendar_request, run by a caller as several invocations that   *)
(* interleave at their calls of the completion client.                     *)
(*                                                                         *)
(* Python values are records with a "type" field, so that None, strings    *)
(* and the pydantic records can be held by one variable.  A                *)
(* confidence_score is held in hundredths (0.7 is 70).                     *)
(***************************************************************************)
EXTENDS Integers, Sequences, FiniteSets, TLC

\* ------------------------------------------------------------------ bounds

\* The number of invocations of process_calendar_request a caller runs.
NumInvocations == 2

Invocations == 1..NumInvocations

\* ------------------------------------------------------------ Python values

PyNone == [type |-> "NoneType"]

PyStr(s) == [type |-> "str", value |-> s]

\* A name that is not bound yet (client and model before the module body ran).
Unbound == [type |-> "unbound"]

\* Python's truth value of None and of a str.
Truthy(v) == v.type = "str" /\ v.value # ""

\* The process environment: OPENAI_API_KEY unset, set to "", or set to a key.
Environments ==
    { [vars |-> {}, OPENAI_API_KEY |-> ""],
      [vars |-> {"OPENAI_API_KEY"}, OPENAI_API_KEY |-> ""],
      [vars |-> {"OPENAI_API_KEY"}, OPENAI_API_KEY |-> "sk-test"] }

\* os.getenv("OPENAI_API_KEY"): the value, or None when the variable is unset.
Getenv(env) ==
    IF "OPENAI_API_KEY" \in env.vars THEN PyStr(env.OPENAI_API_KEY) ELSE PyNone

\* ------------------------------------------------------------ data models

\* The caller's inputs: the entry point's literal and a non-event.
UserInputs == {"Let's schedule a 1h team meeting next Tuesday at 2pm", "What's the weather today?"}

Descriptions == {"Team meeting next Tuesday 2pm, 1h"}

\* confidence_score in hundredths: just below the threshold, on it, and the top.
ConfidenceScores == {69, 70, 100}

\* The policy constant 0.7 of process_calendar_request, in hundredths.
Threshold == 70

EventExtraction ==
    [type : {"EventExtraction"}, description : Descriptions,
     is_calendar_event : BOOLEAN, confidence_score : ConfidenceScores]

EventDetails ==
    [type : {"EventDetails"}, name : {"Team Meeting"},
     date : {"2026-11-03T14:00:00"}, duration_minutes : {60},
     participants : {<<"Alice", "Bob">>}]

\* calendar_link is Optional[str] = None.
EventConfirmation ==
    [type : {"EventConfirmation"}, confirmation_message : {"Confirmed. Susie"},
     calendar_link : {PyNone, PyStr("https://cal.example/e1")}]

Stages == {"extract", "parse", "confirm"}

\* response_format of each stage's request.
ResponseFormat(stage) ==
    CASE stage = "extract" -> "EventExtraction"
      [] stage = "parse" -> "EventDetails"
      [] stage = "confirm" -> "EventConfirmation"

\* The records of a stage's response_format.
RecordsOf(stage) ==
    CASE stage = "extract" -> EventExtraction
      [] stage = "parse" -> EventDetails
      [] stage = "confirm" -> EventConfirmation

\* ------------------------------------------------------ completion client

\* Failures of client.beta.chat.completions.parse.
ClientErrors == {"APIConnectionError", "RateLimitError"}

NoError == "none"

\* What the client does with a request: it raises, or returns a completion whose
\* choices hold one message (one choice is asked for); the message's parsed is a
\* record of the response_format or None (a refusal carries no parsed value).
ClientResponses(stage) ==
    {[raised |-> e, choices |-> <<>>] : e \in ClientErrors}
    \cup {[raised |-> NoError, choices |-> <<[parsed |-> p]>>] :
            p \in RecordsOf(stage) \cup {PyNone}}

VARIABLES
    environ,      \* the process environment
    main,         \* the module body: "load", "ready" or "config_error"
    api_key,      \* module global api_key
    client,       \* module global client
    model,        \* module global model
    pc,           \* per invocation: where process_calendar_request stands
    user_input,   \* per invocation: its argument
    extraction,   \* per invocation: local extraction
    details,      \* per invocation: local details
    outcome,      \* per invocation: what process_calendar_request ended in
    calls,        \* per invocation: the stage calls made, with their arguments
    requests,     \* per invocation: the requests issued to the client
    responses     \* per invocation: what the client answered

globals == <<environ, main, api_key, client, model>>
locals == <<pc, user_input, extraction, details, outcome, calls, requests, responses>>
vars == <<globals, locals>>

Pending == [kind |-> "pending", value |-> PyNone, err |-> NoError]

Init ==
    /\ environ \in Environments
    /\ main = "load"
    /\ api_key = Unbound
    /\ client = Unbound
    /\ model = Unbound
    /\ pc = [i \in Invocations |-> "idle"]
    /\ user_input = [i \in Invocations |-> PyNone]
    /\ extraction = [i \in Invocations |-> Unbound]
    /\ details = [i \in Invocations |-> Unbound]
    /\ outcome = [i \in Invocations |-> Pending]
    /\ calls = [i \in Invocations |-> <<>>]
    /\ requests = [i \in Invocations |-> <<>>]
    /\ responses = [i \in Invocations |-> <<>>]

\* A faulty variant of the credential test: `if api_key == ""`, which lets an
\* unset variable (None) through.
CredentialMissingEmptyOnly(key) == key.type = "str" /\ key.value = ""

\* `if not api_key` of the module body.
CredentialMissing(key) == ~Truthy(key)

\* The module body: api_key = os.getenv(...); raise ValueError when it is falsy;
\* otherwise client = OpenAI(api_key=api_key) and model = "gpt-4o-mini-2024-07-18".
Startup ==
    /\ main = "load"
    /\ api_key' = Getenv(environ)
    /\ IF CredentialMissing(Getenv(environ))
       THEN /\ main' = "config_error"
            /\ UNCHANGED <<client, model>>
       ELSE /\ main' = "ready"
            /\ client' = [type |-> "OpenAI", api_key |-> Getenv(environ)]
            /\ model' = PyStr("gpt-4o-mini-2024-07-18")
    /\ UNCHANGED <<environ, locals>>

\* ------------------------------------------------------------------ stages

Raise(e) == [kind |-> "raise", value |-> PyNone, err |-> e]

Return(v) == [kind |-> "return", value |-> v, err |-> NoError]

\* The system message of each stage (the date it states is left out).
SystemPrompt(stage) ==
    CASE stage = "extract" -> "Today is {today}. Is this a calendar event?"
      [] stage = "parse" -> "Today is {today}. Extract event details."
      [] stage = "confirm" -> "Generate a confirmation. Sign off with 'Susie'."

\* client.beta.chat.completions.parse(model=model, messages=[system, user],
\* response_format=...): the request a stage issues, read from the globals.
Request(stage, content) ==
    [stage |-> stage, model |-> model, api_key |-> client.api_key,
     system |-> SystemPrompt(stage), user |-> content,
     response_format |-> ResponseFormat(stage)]

\* event_details.model_dump(): the field mapping of the record.
ModelDump(d) ==
    [name |-> d.name, date |-> d.date, duration_minutes |-> d.duration_minutes,
     participants |-> d.participants]

\* str(event_details.model_dump()): the user message of generate_confirmation.
StrOfDump(d) == [type |-> "str", of |-> ModelDump(d)]

\* A faulty variant of the stages: the client's failure is caught and another
\* exception is raised in its place.
StageFailureWrapped(r) == IF r.raised # NoError THEN "RuntimeError" ELSE NoError

\* The exception a stage ends in, given the client's answer: the client's own
\* failure, unchanged (the stage catches nothing).
StageFailure(r) == r.raised

\* return completion.choices[0].message.parsed
StageReturn(r) == r.choices[1].parsed

\* Faulty variants of the threshold test: `and` for `or`; the confidence test
\* left out; `<=` for `<`.
ShortCircuitAnd(e) == ~e.is_calendar_event /\ e.confidence_score < Threshold

ShortCircuitEventOnly(e) == ~e.is_calendar_event

ShortCircuitInclusive(e) == ~e.is_calendar_event \/ e.confidence_score <= Threshold

\* `not extraction.is_calendar_event or extraction.confidence_score < 0.7`
ShortCircuit(e) == ~e.is_calendar_event \/ e.confidence_score < Threshold

\* A faulty variant of the local: `extraction` kept in a module global that the
\* first invocation's value occupies once it is set.
SharedExtraction(i) == IF extraction[1] # Unbound THEN extraction[1] ELSE extraction[i]

\* The local variable `extraction` of invocation i.
LocalExtraction(i) == extraction[i]

\* The argument of parse_event_details: extraction.description.
ParseArgument(i) == PyStr(LocalExtraction(i).description)

\* The argument of generate_confirmation: the local details.
ConfirmArgument(i) == details[i]

\* A faulty variant of the return: the confirmation rebuilt from its message
\* alone, the link left at its default.
ReturnConfirmationNoLink(c) ==
    IF c.type = "EventConfirmation"
    THEN Return([c EXCEPT !.calendar_link = PyNone])
    ELSE Return(c)

\* `return generate_confirmation(details)`: the stage's value is the result.
ReturnConfirmation(c) == Return(c)

\* A faulty variant: a failed stage is tried again.
PcRetry(stage) == stage

\* Where an invocation goes when a stage raised: the exception leaves
\* process_calendar_request (no handler, no retry).
PcAfterFailure(stage) == "done"

Call(stage, arg) == [stage |-> stage, arg |-> arg]

\* ------------------------------------------------------------ orchestrator

\* The caller invokes process_calendar_request(u); it calls
\* extract_event_info(u), which issues its request.
Invoke(i, u) ==
    /\ main = "ready"
    /\ pc[i] = "idle"
    /\ user_input' = [user_input EXCEPT ![i] = PyStr(u)]
    /\ calls' = [calls EXCEPT ![i] = Append(@, Call("extract", PyStr(u)))]
    /\ requests' = [requests EXCEPT ![i] = Append(@, Request("extract", PyStr(u)))]
    /\ pc' = [pc EXCEPT ![i] = "extract"]
    /\ UNCHANGED <<globals, extraction, details, outcome, responses>>

\* The client answers the extraction request; extract_event_info returns
\* message.parsed to `extraction`, or ends in an exception.
ExtractReturn(i, r) ==
    /\ pc[i] = "extract"
    /\ responses' = [responses EXCEPT ![i] = Append(@, r)]
    /\ IF StageFailure(r) # NoError
       THEN /\ outcome' = [outcome EXCEPT ![i] = Raise(StageFailure(r))]
            /\ pc' = [pc EXCEPT ![i] = PcAfterFailure("extract")]
            /\ UNCHANGED extraction
       ELSE /\ extraction' = [extraction EXCEPT ![i] = StageReturn(r)]
            /\ pc' = [pc EXCEPT ![i] = "decision"]
            /\ UNCHANGED outcome
    /\ UNCHANGED <<globals, user_input, details, calls, requests>>

\* The threshold test; on None the attribute access raises AttributeError;
\* on pass, parse_event_details(extraction.description) is called and issues
\* its request.
Decide(i) ==
    /\ pc[i] = "decision"
    /\ IF LocalExtraction(i) = PyNone
       THEN /\ outcome' = [outcome EXCEPT ![i] = Raise("AttributeError")]
            /\ pc' = [pc EXCEPT ![i] = "done"]
            /\ UNCHANGED <<calls, requests>>
       ELSE IF ShortCircuit(LocalExtraction(i))
       THEN /\ outcome' = [outcome EXCEPT ![i] = Return(PyNone)]
            /\ pc' = [pc EXCEPT ![i] = "done"]
            /\ UNCHANGED <<calls, requests>>
       ELSE /\ calls' = [calls EXCEPT ![i] = Append(@, Call("parse", ParseArgument(i)))]
            /\ requests' = [requests EXCEPT ![i] =
                               Append(@, Request("parse", ParseArgument(i)))]
            /\ pc' = [pc EXCEPT ![i] = "parse"]
            /\ UNCHANGED outcome
    /\ UNCHANGED <<globals, user_input, extraction, details, responses>>

\* The client answers the detail request; parse_event_details returns
\* message.parsed to `details`, or ends in an exception.
DetailReturn(i, r) ==
    /\ pc[i] = "parse"
    /\ responses' = [responses EXCEPT ![i] = Append(@, r)]
    /\ IF StageFailure(r) # NoError
       THEN /\ outcome' = [outcome EXCEPT ![i] = Raise(StageFailure(r))]
            /\ pc' = [pc EXCEPT ![i] = PcAfterFailure("parse")]
            /\ UNCHANGED details
       ELSE /\ details' = [details EXCEPT ![i] = StageReturn(r)]
            /\ pc' = [pc EXCEPT ![i] = "parsed"]
            /\ UNCHANGED outcome
    /\ UNCHANGED <<globals, user_input, extraction, calls, requests>>

\* generate_confirmation(details) is called; building its user message
\* evaluates event_details.model_dump(), which raises AttributeError on None
\* before any request is issued.
CallConfirmation(i) ==
    /\ pc[i] = "parsed"
    /\ calls' = [calls EXCEPT ![i] = Append(@, Call("confirm", ConfirmArgument(i)))]
    /\ IF ConfirmArgument(i) = PyNone
       THEN /\ outcome' = [outcome EXCEPT ![i] = Raise("AttributeError")]
            /\ pc' = [pc EXCEPT ![i] = "done"]
            /\ UNCHANGED requests
       ELSE /\ requests' = [requests EXCEPT ![i] =
                               Append(@, Request("confirm", StrOfDump(ConfirmArgument(i))))]
            /\ pc' = [pc EXCEPT ![i] = "confirm"]
            /\ UNCHANGED outcome
    /\ UNCHANGED <<globals, user_input, extraction, details, responses>>

\* The client answers the confirmation request; generate_confirmation returns
\* message.parsed, which process_calendar_request returns as it is.
ConfirmReturn(i, r) ==
    /\ pc[i] = "confirm"
    /\ responses' = [responses EXCEPT ![i] = Append(@, r)]
    /\ IF StageFailure(r) # NoError
       THEN /\ outcome' = [outcome EXCEPT ![i] = Raise(StageFailure(r))]
            /\ pc' = [pc EXCEPT ![i] = PcAfterFailure("confirm")]
       ELSE /\ outcome' = [outcome EXCEPT ![i] = ReturnConfirmation(StageReturn(r))]
            /\ pc' = [pc EXCEPT ![i] = "done"]
    /\ UNCHANGED <<globals, user_input, extraction, details, calls, requests>>

\* The steps of invocation i that the caller does not start.
Step(i) ==
    \/ \E r \in ClientResponses("extract") : ExtractReturn(i, r)
    \/ Decide(i)
    \/ \E r \in ClientResponses("parse") : DetailReturn(i, r)
    \/ CallConfirmation(i)
    \/ \E r \in ClientResponses("confirm") : ConfirmReturn(i, r)

Next ==
    \/ Startup
    \/ \E i \in Invocations, u \in UserInputs : Invoke(i, u)
    \/ \E i \in Invocations : Step(i)

Spec == Init /\ [][Next]_vars

\* Every request is answered and every local step is taken: the client's
\* answers are assumed, the local steps are the interpreter running on.
FairSpec == Spec /\ \A i \in Invocations : WF_vars(Step(i))

\* ------------------------------------------------------------------ claims

\* The stages called so far by invocation i, in order.
StagesCalled(i) == [k \in 1..Len(calls[i]) |-> calls[i][k].stage]

\* The stages of the requests issued so far by invocation i, in order.
StagesRequested(i) == [k \in 1..Len(requests[i]) |-> requests[i][k].stage]

CallsTo(i, stage) == Cardinality({k \in 1..Len(calls[i]) : calls[i][k].stage = stage})

IsExtractionRecord(e) == e.type = "EventExtraction"

\* Stage number k of invocation i got an answer and returned a value.
StageReturned(i, k) == Len(responses[i]) >= k /\ StageFailure(responses[i][k]) = NoError

\* Stage number k of invocation i got an answer and ended in an exception.
StageFailed(i, k) == Len(responses[i]) >= k /\ StageFailure(responses[i][k]) # NoError

\* The extraction stage of invocation i returned a non-event record.
NonEvent(i) ==
    IsExtractionRecord(extraction[i]) /\ ~extraction[i].is_calendar_event

\* The extraction stage of invocation i returned an event of low confidence.
LowConfidence(i) ==
    /\ IsExtractionRecord(extraction[i])
    /\ extraction[i].is_calendar_event
    /\ extraction[i].confidence_score < Threshold

\* The extraction stage of invocation i returned an event of sufficient confidence.
Sufficient(i) ==
    /\ IsExtractionRecord(extraction[i])
    /\ extraction[i].is_calendar_event
    /\ extraction[i].confidence_score >= Threshold

\* C1: whenever the extraction stage returned a record with is_calendar_event
\* false, whatever its confidence, the invocation is about to decide or has
\* returned None, and it has called neither parse_event_details nor
\* generate_confirmation.
C1_NonEventReturnsAbsent ==
    \A i \in Invocations :
        NonEvent(i) =>
            /\ pc[i] \in {"decision", "done"}
            /\ pc[i] = "done" => outcome[i] = Return(PyNone)
            /\ CallsTo(i, "parse") = 0
            /\ CallsTo(i, "confirm") = 0

\* An invocation ended on a non-event of the highest confidence.
C1_Witness ==
    \E i \in Invocations :
        /\ pc[i] = "done"
        /\ NonEvent(i)
        /\ extraction[i].confidence_score = 100
        /\ outcome[i] = Return(PyNone)

\* C2 as stated: once an invocation whose extraction was an event of confidence
\* >= 0.7 has ended, it has called parse_event_details exactly once with the
\* description and then generate_confirmation exactly once with the record
\* parse_event_details returned.
C2_AsStated ==
    \A i \in Invocations :
        (Sufficient(i) /\ pc[i] = "done") =>
            /\ Len(calls[i]) = 3
            /\ calls[i][2] = Call("parse", PyStr(extraction[i].description))
            /\ calls[i][3].stage = "confirm"
            /\ calls[i][3].arg \in EventDetails
            /\ calls[i][3].arg = details[i]

\* C2 as amended: an invocation whose extraction was an event of confidence
\* >= 0.7 (0.7 included) calls parse_event_details exactly once, with the
\* description; if that stage returns, it then calls generate_confirmation
\* exactly once with the value the stage returned, and if that stage fails it
\* does not call generate_confirmation.
C2_DetailThenConfirmation ==
    \A i \in Invocations :
        (Sufficient(i) /\ pc[i] # "decision") =>
            /\ CallsTo(i, "parse") = 1
            /\ calls[i][2] = Call("parse", PyStr(extraction[i].description))
            /\ (StageReturned(i, 2) /\ pc[i] # "parsed") =>
                  /\ Len(calls[i]) = 3
                  /\ calls[i][3] = Call("confirm", StageReturn(responses[i][2]))
            /\ (~StageReturned(i, 2) \/ pc[i] = "parsed") => Len(calls[i]) = 2

\* An invocation whose extraction had confidence exactly 0.7 went through both
\* later stages and returned a confirmation.
C2_Witness ==
    \E i \in Invocations :
        /\ pc[i] = "done"
        /\ Sufficient(i)
        /\ extraction[i].confidence_score = Threshold
        /\ Len(calls[i]) = 3
        /\ outcome[i].kind = "return"
        /\ outcome[i].value \in EventConfirmation

\* C3: whenever the extraction stage returned an event record of confidence
\* below 0.7, the invocation is about to decide or has returned None.
C3_LowConfidenceReturnsAbsent ==
    \A i \in Invocations :
        LowConfidence(i) =>
            /\ pc[i] \in {"decision", "done"}
            /\ pc[i] = "done" => outcome[i] = Return(PyNone)

\* An invocation ended on an event of confidence 0.69.
C3_Witness ==
    \E i \in Invocations :
        /\ pc[i] = "done"
        /\ LowConfidence(i)
        /\ extraction[i].confidence_score = 69
        /\ outcome[i] = Return(PyNone)

\* C4: when the client raised on the request of stage number k, the invocation
\* has ended in that very exception, and it has called no stage and issued no
\* request after stage k.
C4_ClientFailurePropagates ==
    \A i \in Invocations :
        \A k \in 1..Len(responses[i]) :
            responses[i][k].raised # NoError =>
                /\ pc[i] = "done"
                /\ outcome[i] = Raise(responses[i][k].raised)
                /\ outcome[i].err \in ClientErrors
                /\ Len(responses[i]) = k
                /\ Len(calls[i]) = k
                /\ Len(requests[i]) = k

\* The client failed in each of the three stages.
C4_Witness ==
    \E i, j \in Invocations :
        /\ Len(responses[i]) = 2
        /\ responses[i][2].raised = "RateLimitError"
        /\ outcome[i] = Raise("RateLimitError")
        /\ Len(responses[j]) = 3
        /\ responses[j][3].raised = "APIConnectionError"
        /\ outcome[j] = Raise("APIConnectionError")

\* C5: when the confirmation stage returned, the invocation has returned the
\* very value that stage returned: same message, same link (None included).
C5_ReturnsConfirmationUnchanged ==
    \A i \in Invocations :
        StageReturned(i, 3) =>
            /\ pc[i] = "done"
            /\ outcome[i].kind = "return"
            /\ outcome[i].value = StageReturn(responses[i][3])

\* One invocation returned a confirmation with a link, another one without.
C5_Witness ==
    \E i, j \in Invocations :
        /\ outcome[i].kind = "return"
        /\ outcome[i].value \in EventConfirmation
        /\ outcome[i].value.calendar_link = PyNone
        /\ outcome[j].kind = "return"
        /\ outcome[j].value \in EventConfirmation
        /\ outcome[j].value.calendar_link # PyNone

\* C6: with OPENAI_API_KEY unset, the module body either has not run yet or
\* has ended in the configuration error; the client is never constructed, no
\* invocation starts, no stage is called and no request is issued.
C6_MissingCredentialFailsFast ==
    Getenv(environ) = PyNone =>
        /\ main \in {"load", "config_error"}
        /\ client = Unbound
        /\ \A i \in Invocations :
              pc[i] = "idle" /\ calls[i] = <<>> /\ requests[i] = <<>>

\* The module body ended in the configuration error on an unset variable.
C6_Witness == Getenv(environ) = PyNone /\ main = "config_error"

\* C7: every value a stage returned is a complete record of its result type.
C7_StagesReturnCompleteRecords ==
    \A i \in Invocations :
        /\ extraction[i] # Unbound => extraction[i] \in EventExtraction
        /\ details[i] # Unbound => details[i] \in EventDetails
        /\ StageReturned(i, 3) => StageReturn(responses[i][3]) \in EventConfirmation

\* What process_calendar_request ends in, read from the client's answers to
\* its own requests alone (Pending when the answers do not reach an end).
ReplayOutcome(rs) ==
    IF Len(rs) = 0 THEN Pending
    ELSE IF StageFailure(rs[1]) # NoError THEN Raise(StageFailure(rs[1]))
    ELSE IF StageReturn(rs[1]) = PyNone THEN Raise("AttributeError")
    ELSE IF ~StageReturn(rs[1]).is_calendar_event
            \/ StageReturn(rs[1]).confidence_score < Threshold
         THEN (IF Len(rs) = 1 THEN Return(PyNone) ELSE Pending)
    ELSE IF Len(rs) = 1 THEN Pending
    ELSE IF StageFailure(rs[2]) # NoError THEN Raise(StageFailure(rs[2]))
    ELSE IF StageReturn(rs[2]) = PyNone THEN Raise("AttributeError")
    ELSE IF Len(rs) = 2 THEN Pending
    ELSE IF StageFailure(rs[3]) # NoError THEN Raise(StageFailure(rs[3]))
    ELSE Return(StageReturn(rs[3]))

\* The stages process_calendar_request calls, read from the client's answers
\* to its own requests alone.
ReplayStages(rs) ==
    IF Len(rs) = 0 \/ StageFailure(rs[1]) # NoError THEN <<"extract">>
    ELSE IF StageReturn(rs[1]) = PyNone THEN <<"extract">>
    ELSE IF ~StageReturn(rs[1]).is_calendar_event
            \/ StageReturn(rs[1]).confidence_score < Threshold
         THEN <<"extract">>
    ELSE IF Len(rs) = 1 \/ StageFailure(rs[2]) # NoError THEN <<"extract", "parse">>
    ELSE <<"extract", "parse", "confirm">>

\* The local state of invocation i.
LocalState(i) ==
    <<pc[i], user_input[i], extraction[i], details[i], outcome[i],
      calls[i], requests[i], responses[i]>>

\* Every request of invocation i carries the client and model set at startup.
UsesStartupConfiguration(i) ==
    \A k \in 1..Len(requests[i]) :
        /\ requests[i][k].api_key = PyStr(environ.OPENAI_API_KEY)
        /\ requests[i][k].model = PyStr("gpt-4o-mini-2024-07-18")

\* The state part of C8: the locals of an invocation are the values its own
\* stages returned, and an ended invocation's outcome and stage calls are those
\* its own answers determine.
C8_OwnResponsesDecide ==
    \A i \in Invocations :
        /\ extraction[i] =
              (IF StageReturned(i, 1) THEN StageReturn(responses[i][1]) ELSE Unbound)
        /\ details[i] =
              (IF StageReturned(i, 2) THEN StageReturn(responses[i][2]) ELSE Unbound)
        /\ pc[i] = "done" =>
              /\ outcome[i] = ReplayOutcome(responses[i])
              /\ StagesCalled(i) = ReplayStages(responses[i])
        /\ UsesStartupConfiguration(i)

\* The step part of C8: a step changes the local state of at most one
\* invocation, and once the module body has run no step writes api_key,
\* client or model.
C8_NoSharedWrites ==
    /\ \A i, j \in Invocations :
          (i # j /\ LocalState(i)' # LocalState(i)) => LocalState(j)' = LocalState(j)
    /\ main # "load" => UNCHANGED <<api_key, client, model>>

\* C8: invocations interleaved in any way are independent: each one's outcome
\* and stage calls depend on the answers to its own requests only, and no
\* invocation writes state that another one reads.
C8_InvocationsIndependent == []C8_OwnResponsesDecide /\ [][C8_NoSharedWrites]_vars

\* Two invocations are in flight at once, at different stages and holding
\* different extractions.
C8_Witness ==
    /\ NumInvocations >= 2
    /\ pc[1] = "parse"
    /\ pc[2] = "confirm"
    /\ extraction[1] # extraction[2]

\* C9 as stated: every stage call issues exactly one request, so the requests
\* of an invocation are its stage calls; they are at most three, in the order
\* extract, parse, confirm; a parse request follows a returned extraction and
\* a confirm request follows a returned parse.
C9_OneRequestPerStageCall ==
    \A i \in Invocations :
        /\ StagesRequested(i) = StagesCalled(i)
        /\ Len(requests[i]) <= 3
        /\ \A k \in 1..Len(requests[i]) :
              requests[i][k].stage = <<"extract", "parse", "confirm">>[k]
        /\ Len(requests[i]) >= 2 => StageReturned(i, 1)
        /\ Len(requests[i]) >= 3 => StageReturned(i, 2)

\* The order of the pipeline's states.
Rank(p) ==
    CASE p = "idle" -> 0
      [] p = "extract" -> 1
      [] p = "decision" -> 2
      [] p = "parse" -> 3
      [] p = "parsed" -> 4
      [] p = "confirm" -> 5
      [] p = "done" -> 6

Absent(i) == outcome[i] = Return(PyNone)

Confirmed(i) == outcome[i].kind = "return" /\ outcome[i].value \in EventConfirmation

Failed(i) == outcome[i].kind = "raise" /\ outcome[i].err # NoError

\* An ended invocation has exactly one of the three outcomes, and an
\* invocation that has not ended has none.
C10_OneOutcome ==
    \A i \in Invocations :
        IF pc[i] = "done"
        THEN Cardinality({o \in {"absent", "confirmed", "failed"} :
                            \/ o = "absent" /\ Absent(i)
                            \/ o = "confirmed" /\ Confirmed(i)
                            \/ o = "failed" /\ Failed(i)}) = 1
        ELSE outcome[i] = Pending

\* A step of an invocation moves it strictly forward, and an ended invocation
\* takes no step.
C10_ForwardOnly ==
    \A i \in Invocations :
        /\ LocalState(i)' # LocalState(i) => Rank(pc[i]') > Rank(pc[i])
        /\ pc[i] = "done" => LocalState(i)' = LocalState(i)

\* An invocation that has started and not ended can take a step.
C10_Progress ==
    \A i \in Invocations : pc[i] \notin {"idle", "done"} => ENABLED Step(i)

\* C10: an invocation that has started and not ended always has a step to
\* take, each step moves it strictly forward through the seven states, so with
\* every request answered it ends; it ends in exactly one of the three
\* outcomes, takes no step afterwards and never returns to an earlier state.
C10_Terminates ==
    /\ [][C10_ForwardOnly]_vars
    /\ []C10_OneOutcome
    /\ []C10_Progress

\* The same end stated as a liveness property: under the fairness of FairSpec
\* every started invocation eventually ends.
C10_EventuallyEnds == \A i \in Invocations : (pc[i] # "idle") ~> (pc[i] = "done")

\* Two invocations ended: one returned None after its extraction, the other
\* failed or returned a confirmation.
C10_Witness ==
    \E i, j \in Invocations :
        /\ pc[i] = "done" /\ pc[j] = "done"
        /\ Absent(i) /\ Len(responses[i]) = 1
        /\ \/ Failed(j)
           \/ Confirmed(j)
====
